---- MODULE Spec2Model ----
(***************************************************************************)
(* Model of the AutoScalingGroup controller (src/unnamed/part_000) and of  *)
(* the NatGateway resource (src/unnamed/part_001).                         *)
(*                                                                         *)
(* One AutoScalingGroup object (one name) is reconciled against a cloud    *)
(* provider.  Every cloud API call of Reconcile and Finalize is one step,  *)
(* so passes of different workers interleave at the calls; the local       *)
(* computation that follows a call's response is part of that step.        *)
(***************************************************************************)
EXTENDS Naturals, Sequences, FiniteSets

\* ---------------------------------------------------------------- bounds
\* Passes (Reconcile or Finalize invocations) started in one behaviour.
MaxPasses == 3
\* Private subnets the owning cluster can have.
MaxSubnets == 1

\* Autoscaling groups a describe-by-name may return for the object's name.
MaxGroups == 2

\* Values of the object's desired instance count (Spec.InstanceCount).
MaxInstances == 2

\* NatGateway.Create calls made in one behaviour.
MaxNatCalls == 3

\* Workers that may run a pass of the object at the same time.
Workers == {"w1", "w2"}
\* The dispatcher's guarantee of at most one pass in flight per key.
SeqWorkers == {"w1"}
\* Control planes (namespace/name) NatGateway.Create is called for.
ControlPlanes == {"cp1", "cp2"}
\* The names of the object store: a control plane's namespace/name and a
\* suffix (none, or one a call made up).
NoSuffix == ""
Suffixes == {NoSuffix} \cup Workers
Names == ControlPlanes \X Suffixes
\* Target-group ARNs the provider can hand out for the object's name.
ARNs == {"arn:A", "arn:B"}

VARIABLES
    asgCount,        \* provider: autoscaling groups carrying the object's name
    asgCapacity,     \* provider: DesiredCapacity of the group (0 with no group)
    asgStatus,       \* provider: Group.Status of the group
    attached,        \* provider: target-group ARNs attached to the group
    tgArn,           \* provider: ARN of the target group named like the object, or "none"
    subnets,         \* provider: number of private subnets of the cluster
    deletionMarked,  \* object: deletion marker (set once, never unset)
    instanceCount,   \* object: Spec.InstanceCount
    pc,              \* per worker: the next cloud call of its pass
    loc,             \* per worker: local variables of the pass
    cur,             \* per worker: the pass in flight (kind, calls so far, start)
    hist,            \* completed passes, in order of completion
    natStore,        \* object store: per name, the NatGateway objects (owner, spec)
    natPc,           \* per worker: the next store call of its NatGateway.Create
    natCur,          \* per worker: the NatGateway.Create call in flight
    natLog           \* completed NatGateway.Create calls, in order of completion

asgVars == <<asgCount, asgCapacity, asgStatus, attached, tgArn, subnets, deletionMarked,
             instanceCount, pc, loc, cur, hist>>
natVars == <<natStore, natPc, natCur, natLog>>
vars == <<asgVars, natVars>>
provider == <<asgCount, asgCapacity, asgStatus, attached, tgArn, subnets>>
object == <<deletionMarked, instanceCount>>

\* ------------------------------------------------------------ provider
DeleteInProgress == "Delete in progress"

\* The provider's state as one value (taken at the start and end of a pass).
EnvSnap ==
    [asgCount |-> asgCount, asgCapacity |-> asgCapacity, asgStatus |-> asgStatus,
     attached |-> attached, tgArn |-> tgArn, subnets |-> subnets,
     deletionMarked |-> deletionMarked, instanceCount |-> instanceCount]

NoSnap == <<>>
NoGroup == [present |-> FALSE, status |-> ""]
NilTargetGroup == "nil"

\* One cloud call of a pass: the operation, its ARN argument and its error.
Call(op, arg, err) == [op |-> op, arg |-> arg, err |-> err]

\* CreateAutoScalingGroup as the provider answers it: a name is unique, a
\* second create for it is rejected with AlreadyExists.  The provider alone
\* thereby keeps asgCount at one or less, whatever the passes request.
ProviderCreate(count) ==
    IF count >= 1 THEN [count |-> count, err |-> "AlreadyExists"]
                  ELSE [count |-> 1, err |-> "nil"]

RemoveArn(s, arn) == SelectSeq(s, LAMBDA x : x # arn)
AddArn(s, arn) == IF \E i \in 1..Len(s) : s[i] = arn THEN s ELSE Append(s, arn)

\* ------------------------------------------------- decisions of the code
\* getAutoScalingGroup: the group of a describe-by-name response.
getAutoScalingGroupBlind(err, count, status) ==
    IF err # "nil" THEN [group |-> NoGroup, err |-> err]
    ELSE IF count > 1 THEN [group |-> NoGroup, err |-> "expected asg count one"]
    ELSE [group |-> NoGroup, err |-> "nil"]
getAutoScalingGroup(err, count, status) ==
    IF err # "nil" THEN [group |-> NoGroup, err |-> err]
    ELSE IF count = 0 THEN [group |-> NoGroup, err |-> "nil"]
    ELSE IF count > 1 THEN [group |-> NoGroup, err |-> "expected asg count one"]
    ELSE [group |-> [present |-> TRUE, status |-> status], err |-> "nil"]

\* Reconcile: `if existingASG == nil` creates the group.
NeedsCreateAlways(existingASG) == TRUE
NeedsCreate(existingASG) == ~existingASG.present

\* createAutoScalingGroup: `DesiredCapacity: aws.Int64(int64(asg.Spec.InstanceCount))`.
DesiredCapacity(count) == count

\* createAutoScalingGroup: `if len(privateSubnets) == 0` waits.
SubnetsMissingNever(privateSubnets) == FALSE
SubnetsMissing(privateSubnets) == privateSubnets = 0

\* Reconcile: `err != nil && errors.IsTargetGroupNotExists(err)` waits.
WaitsForTargetGroupNever(err) == FALSE
WaitsForTargetGroup(err) == err # "nil" /\ err = "TargetGroupNotFound"

\* Reconcile: the branch taken on the attached target groups.  Reading
\* targetGroup.TargetGroupArn through a nil targetGroup panics.
AttachmentStepNeverAttach(output, targetGroup) ==
    IF targetGroup = NilTargetGroup THEN "panic"
    ELSE IF Len(output) = 0 THEN "none"
    ELSE IF output[1] # targetGroup THEN "detach"
    ELSE "none"
AttachmentStepNoDetach(output, targetGroup) ==
    IF targetGroup = NilTargetGroup THEN "panic"
    ELSE IF Len(output) = 0 THEN "attach"
    ELSE "none"
AttachmentStepSwap(output, targetGroup) ==
    IF targetGroup = NilTargetGroup THEN "panic"
    ELSE IF Len(output) = 0 THEN "attach"
    ELSE IF output[1] # targetGroup THEN "attach"
    ELSE "none"
AttachmentStep(output, targetGroup) ==
    IF Len(output) = 0
    THEN IF targetGroup = NilTargetGroup THEN "panic" ELSE "attach"
    ELSE IF targetGroup = NilTargetGroup THEN "panic"
    ELSE IF output[1] # targetGroup THEN "detach"
    ELSE "none"

\* Finalize: `existingASG != nil && Status != "Delete in progress"` deletes.
ShouldDeleteAnyStatus(existingASG) == existingASG.present
ShouldDelete(existingASG) ==
    existingASG.present /\ existingASG.status # DeleteInProgress

\* Finalize: `if _, err := Delete...; err != nil { return nil, err }`, else
\* status.Terminated.
FinalizeResultSwallow(err) == "Terminated"
FinalizeResult(err) == IF err # "nil" THEN "Error" ELSE "Terminated"

\* ----------------------------------------------------------- pass state
IdleLoc == [existingASG |-> NoGroup, output |-> <<>>, targetGroup |-> NilTargetGroup]
IdleCur == [kind |-> "none", calls |-> <<>>, start |-> NoSnap]

InFlight == {w \in Workers : pc[w] # "idle"}

\* How a specification runs the passes: the faults the provider may inject
\* into a call, and whether the whole history of passes is kept (with the
\* provider's state at the start of each) or only the last pass.
\* `window` is the number of last passes kept; with window 0 every pass is
\* kept and MaxPasses bounds their number.
Concurrent == [faults |-> BOOLEAN, full |-> FALSE, window |-> 1]
Sequential == [faults |-> {FALSE}, full |-> TRUE, window |-> 0]
Recovery == [faults |-> {FALSE}, full |-> TRUE, window |-> 2]
Resync == [faults |-> {FALSE}, full |-> FALSE, window |-> 1]

Snap(m) == IF m.full THEN EnvSnap ELSE NoSnap
CanStart(m) == m.window = 0 => Len(hist) + Cardinality(InFlight) < MaxPasses

\* The last n elements of the sequence s.
LastN(s, n) == IF Len(s) <= n THEN s ELSE SubSeq(s, Len(s) - n + 1, Len(s))

\* The error a call returns: a transient provider fault when injected.
Fault(fail) == IF fail THEN "Transient" ELSE "nil"

\* The context of the pass of worker w has been cancelled (the cancellation
\* is kept in the pass's log of calls, at the place where it happened).
CancelOp == "context.Canceled"
CtxDone(w) == \E j \in 1..Len(cur[w].calls) : cur[w].calls[j].op = CancelOp

\* A ...WithContext call: with a cancelled context the request is not sent
\* and the call returns the cancellation as its error.
CtxFault(w, fail) == IF CtxDone(w) THEN "Canceled" ELSE Fault(fail)

\* The pass of worker w returns res after the calls cs.
Return(w, m, kind, start, res, cs) ==
    LET rec == [kind |-> kind, worker |-> w, result |-> res, calls |-> cs,
                start |-> start, end |-> EnvSnap']
    IN /\ pc' = [pc EXCEPT ![w] = "idle"]
       /\ loc' = [loc EXCEPT ![w] = IdleLoc]
       /\ cur' = [cur EXCEPT ![w] = IdleCur]
       /\ hist' = IF m.window = 0 THEN Append(hist, rec)
                               ELSE LastN(Append(hist, rec), m.window)

\* The pass of worker w goes on to the call at `next`.
Goto(w, next, kind, start, cs, l) ==
    /\ pc' = [pc EXCEPT ![w] = next]
    /\ loc' = [loc EXCEPT ![w] = l]
    /\ cur' = [cur EXCEPT ![w] = [kind |-> kind, calls |-> cs, start |-> start]]
    /\ hist' = hist

Init ==
    /\ asgCount = 0
    /\ asgCapacity = 0
    /\ instanceCount = 1
    /\ asgStatus = ""
    /\ attached = <<>>
    /\ tgArn = "none"
    /\ subnets = 0
    /\ deletionMarked = FALSE
    /\ pc = [w \in Workers |-> "idle"]
    /\ loc = [w \in Workers |-> IdleLoc]
    /\ cur = [w \in Workers |-> IdleCur]
    /\ hist = <<>>
    /\ natStore = [n \in Names |-> <<>>]
    /\ natPc = [w \in Workers |-> "idle"]
    /\ natCur = [w \in Workers |-> [cp |-> "", lookup |-> "", before |-> <<>>]]
    /\ natLog = <<>>

\* ------------------------------------------------------------ Reconcile
\* Reconcile, first call: getAutoScalingGroup (DescribeAutoScalingGroups).
Reconcile_getAutoScalingGroup(w, m) ==
    /\ pc[w] = "idle" /\ CanStart(m) /\ ~deletionMarked
    /\ \E fail \in m.faults :
        LET r == getAutoScalingGroup(Fault(fail), asgCount, asgStatus)
            cs == <<Call("DescribeAutoScalingGroups", "", r.err)>>
            l == [IdleLoc EXCEPT !.existingASG = r.group]
        IN /\ UNCHANGED <<provider, object, natVars>>
           /\ IF r.err # "nil" THEN Return(w, m, "Reconcile", Snap(m), "Error", cs)
              ELSE IF NeedsCreate(r.group)
                   THEN Goto(w, "getPrivateSubnetIDs", "Reconcile", Snap(m), cs, l)
                   ELSE Goto(w, "DescribeLoadBalancerTargetGroups", "Reconcile", Snap(m), cs, l)

\* createAutoScalingGroup, first call: getPrivateSubnetIDs.
createAutoScalingGroup_getPrivateSubnetIDs(w, m) ==
    /\ pc[w] = "getPrivateSubnetIDs"
    /\ \E fail \in m.faults :
        LET err == CtxFault(w, fail)
            cs == Append(cur[w].calls, Call("DescribeSubnets", "", err))
        IN /\ UNCHANGED <<provider, object, natVars>>
           /\ IF err # "nil" THEN Return(w, m, cur[w].kind, cur[w].start, "Error", cs)
              ELSE IF SubnetsMissing(subnets)
                   THEN Return(w, m, cur[w].kind, cur[w].start, "Waiting", cs)
                   ELSE Goto(w, "CreateAutoScalingGroup", cur[w].kind, cur[w].start, cs, loc[w])

\* createAutoScalingGroup, second call: CreateAutoScalingGroup, the one call
\* made without the context.
createAutoScalingGroup_Create(w, m) ==
    /\ pc[w] = "CreateAutoScalingGroup"
    /\ \E fail \in m.faults :
        LET r == IF fail THEN [count |-> asgCount, err |-> "Transient"]
                         ELSE ProviderCreate(asgCount)
            cs == Append(cur[w].calls, Call("CreateAutoScalingGroup", "", r.err))
        IN /\ asgCount' = r.count
           /\ asgStatus' = IF r.err = "nil" THEN "" ELSE asgStatus
           /\ attached' = IF r.err = "nil" /\ asgCount = 0 THEN <<>> ELSE attached
           /\ asgCapacity' = IF r.err = "nil" THEN DesiredCapacity(instanceCount) ELSE asgCapacity
           /\ UNCHANGED <<tgArn, subnets, object, natVars>>
           /\ IF r.err # "nil" THEN Return(w, m, cur[w].kind, cur[w].start, "Error", cs)
              ELSE Goto(w, "DescribeLoadBalancerTargetGroups", cur[w].kind, cur[w].start, cs, loc[w])

\* Reconcile: DescribeLoadBalancerTargetGroups of the group.
Reconcile_DescribeLoadBalancerTargetGroups(w, m) ==
    /\ pc[w] = "DescribeLoadBalancerTargetGroups"
    /\ \E fail \in m.faults :
        LET err == IF CtxFault(w, fail) # "nil" THEN CtxFault(w, fail)
                   ELSE IF asgCount = 0 THEN "ValidationError" ELSE "nil"
            cs == Append(cur[w].calls, Call("DescribeLoadBalancerTargetGroups", "", err))
        IN /\ UNCHANGED <<provider, object, natVars>>
           /\ IF err # "nil" THEN Return(w, m, cur[w].kind, cur[w].start, "Error", cs)
              ELSE Goto(w, "getTargetGroup", cur[w].kind, cur[w].start, cs,
                        [loc[w] EXCEPT !.output = attached])

\* Reconcile: getTargetGroup, then the choice of the attachment step.
Reconcile_getTargetGroup(w, m) ==
    /\ pc[w] = "getTargetGroup"
    /\ \E fail \in m.faults :
        LET err == IF CtxFault(w, fail) # "nil" THEN CtxFault(w, fail)
                   ELSE IF tgArn = "none" THEN "TargetGroupNotFound" ELSE "nil"
            targetGroup == IF err = "nil" THEN tgArn ELSE NilTargetGroup
            cs == Append(cur[w].calls, Call("DescribeTargetGroups", "", err))
            step == AttachmentStep(loc[w].output, targetGroup)
            l == [loc[w] EXCEPT !.targetGroup = targetGroup]
        IN /\ UNCHANGED <<provider, object, natVars>>
           /\ IF WaitsForTargetGroup(err)
              THEN Return(w, m, cur[w].kind, cur[w].start, "Waiting", cs)
              ELSE IF step = "panic" THEN Return(w, m, cur[w].kind, cur[w].start, "Panic", cs)
              ELSE IF step = "attach"
                   THEN Goto(w, "AttachLoadBalancerTargetGroups", cur[w].kind, cur[w].start, cs, l)
              ELSE IF step = "detach"
                   THEN Goto(w, "DetachLoadBalancerTargetGroups", cur[w].kind, cur[w].start, cs, l)
              ELSE Return(w, m, cur[w].kind, cur[w].start, "Created", cs)

\* Reconcile: AttachLoadBalancerTargetGroups of the expected target group.
Reconcile_Attach(w, m) ==
    /\ pc[w] = "AttachLoadBalancerTargetGroups"
    /\ \E fail \in m.faults :
        LET arn == loc[w].targetGroup
            err == IF CtxFault(w, fail) # "nil" THEN CtxFault(w, fail)
                   ELSE IF asgCount = 0 \/ tgArn # arn THEN "ValidationError" ELSE "nil"
            cs == Append(cur[w].calls, Call("AttachLoadBalancerTargetGroups", arn, err))
        IN /\ attached' = IF err = "nil" THEN AddArn(attached, arn) ELSE attached
           /\ UNCHANGED <<asgCount, asgCapacity, asgStatus, tgArn, subnets, object, natVars>>
           /\ Return(w, m, cur[w].kind, cur[w].start,
                     IF err # "nil" THEN "Error" ELSE "Created", cs)

\* Reconcile: DetachLoadBalancerTargetGroups of the stale attachment.
Reconcile_Detach(w, m) ==
    /\ pc[w] = "DetachLoadBalancerTargetGroups"
    /\ \E fail \in m.faults :
        LET arn == loc[w].output[1]
            err == IF CtxFault(w, fail) # "nil" THEN CtxFault(w, fail)
                   ELSE IF asgCount = 0 THEN "ValidationError" ELSE "nil"
            cs == Append(cur[w].calls, Call("DetachLoadBalancerTargetGroups", arn, err))
        IN /\ attached' = IF err = "nil" THEN RemoveArn(attached, arn) ELSE attached
           /\ UNCHANGED <<asgCount, asgCapacity, asgStatus, tgArn, subnets, object, natVars>>
           /\ Return(w, m, cur[w].kind, cur[w].start,
                     IF err # "nil" THEN "Error" ELSE "Created", cs)

\* ------------------------------------------------------------- Finalize
\* Finalize, first call: getAutoScalingGroup (DescribeAutoScalingGroups).
Finalize_getAutoScalingGroup(w, m) ==
    /\ pc[w] = "idle" /\ CanStart(m) /\ deletionMarked
    /\ \E fail \in m.faults :
        LET r == getAutoScalingGroup(Fault(fail), asgCount, asgStatus)
            cs == <<Call("DescribeAutoScalingGroups", "", r.err)>>
            l == [IdleLoc EXCEPT !.existingASG = r.group]
        IN /\ UNCHANGED <<provider, object, natVars>>
           /\ IF r.err # "nil" THEN Return(w, m, "Finalize", Snap(m), "Error", cs)
              ELSE IF ShouldDelete(r.group)
                   THEN Goto(w, "DeleteAutoScalingGroup", "Finalize", Snap(m), cs, l)
                   ELSE Return(w, m, "Finalize", Snap(m), "Terminated", cs)

\* Finalize: DeleteAutoScalingGroup with ForceDelete.
Finalize_Delete(w, m) ==
    /\ pc[w] = "DeleteAutoScalingGroup"
    /\ \E fail \in m.faults :
        LET err == IF CtxFault(w, fail) # "nil" THEN CtxFault(w, fail)
                   ELSE IF asgCount = 0 THEN "ValidationError" ELSE "nil"
            cs == Append(cur[w].calls, Call("DeleteAutoScalingGroup", "", err))
        IN /\ asgStatus' = IF err = "nil" THEN DeleteInProgress ELSE asgStatus
           /\ UNCHANGED <<asgCount, asgCapacity, attached, tgArn, subnets, object, natVars>>
           /\ Return(w, m, cur[w].kind, cur[w].start, FinalizeResult(err), cs)

\* ---------------------------------------------------------- environment
\* The cluster's private subnets appear or disappear.
SubnetsChange ==
    /\ \E n \in (0..MaxSubnets) \ {subnets} : subnets' = n
    /\ UNCHANGED <<asgCount, asgCapacity, asgStatus, attached, tgArn, object, pc, loc, cur, hist, natVars>>

\* The target group named like the object is created, replaced or deleted.
TargetGroupChange ==
    /\ \E t \in (ARNs \cup {"none"}) \ {tgArn} : tgArn' = t
    /\ UNCHANGED <<asgCount, asgCapacity, asgStatus, attached, subnets, object, pc, loc, cur, hist, natVars>>

\* Deletion of the object is requested.
MarkDeleted ==
    /\ ~deletionMarked
    /\ deletionMarked' = TRUE
    /\ UNCHANGED <<provider, instanceCount, pc, loc, cur, hist, natVars>>

\* The provider finishes a deletion in progress.
DeletionCompletes ==
    /\ asgCount >= 1 /\ asgStatus = DeleteInProgress
    /\ asgCount' = asgCount - 1
    /\ asgStatus' = IF asgCount = 1 THEN "" ELSE asgStatus
    /\ attached' = IF asgCount = 1 THEN <<>> ELSE attached
    /\ asgCapacity' = IF asgCount = 1 THEN 0 ELSE asgCapacity
    /\ UNCHANGED <<tgArn, subnets, object, pc, loc, cur, hist, natVars>>

\* ------------------------------------------------------- specifications
\* Concurrent passes, a provider that may fail any call, and an environment
\* that changes at any time.
Next ==
    \/ \E w \in Workers : Reconcile_getAutoScalingGroup(w, Concurrent)
    \/ \E w \in Workers : createAutoScalingGroup_getPrivateSubnetIDs(w, Concurrent)
    \/ \E w \in Workers : createAutoScalingGroup_Create(w, Concurrent)
    \/ \E w \in Workers : Reconcile_DescribeLoadBalancerTargetGroups(w, Concurrent)
    \/ \E w \in Workers : Reconcile_getTargetGroup(w, Concurrent)
    \/ \E w \in Workers : Reconcile_Attach(w, Concurrent)
    \/ \E w \in Workers : Reconcile_Detach(w, Concurrent)
    \/ \E w \in Workers : Finalize_getAutoScalingGroup(w, Concurrent)
    \/ \E w \in Workers : Finalize_Delete(w, Concurrent)
    \/ SubnetsChange
    \/ TargetGroupChange
    \/ MarkDeleted
    \/ DeletionCompletes

Spec == Init /\ [][Next]_vars

\* One pass at a time (the dispatcher's guarantee), a provider whose calls
\* succeed, and an environment that changes only between passes.
Quiet == InFlight = {}

NextSeq ==
    \/ \E w \in SeqWorkers : Reconcile_getAutoScalingGroup(w, Sequential)
    \/ \E w \in SeqWorkers : createAutoScalingGroup_getPrivateSubnetIDs(w, Sequential)
    \/ \E w \in SeqWorkers : createAutoScalingGroup_Create(w, Sequential)
    \/ \E w \in SeqWorkers : Reconcile_DescribeLoadBalancerTargetGroups(w, Sequential)
    \/ \E w \in SeqWorkers : Reconcile_getTargetGroup(w, Sequential)
    \/ \E w \in SeqWorkers : Reconcile_Attach(w, Sequential)
    \/ \E w \in SeqWorkers : Reconcile_Detach(w, Sequential)
    \/ \E w \in SeqWorkers : Finalize_getAutoScalingGroup(w, Sequential)
    \/ \E w \in SeqWorkers : Finalize_Delete(w, Sequential)
    \/ (Quiet /\ SubnetsChange)
    \/ (Quiet /\ TargetGroupChange)
    \/ (Quiet /\ MarkDeleted)
    \/ (Quiet /\ DeletionCompletes)

SpecSeq == Init /\ [][NextSeq]_vars

\* The object's desired instance count is edited.
InstanceCountChange ==
    /\ \E n \in (1..MaxInstances) \ {instanceCount} : instanceCount' = n
    /\ UNCHANGED <<provider, deletionMarked, pc, loc, cur, hist, natVars>>

\* The passes of SpecSeq for an object whose instance count may be edited
\* between passes.
NextCapacity ==
    \/ NextSeq
    \/ (Quiet /\ InstanceCountChange)

SpecCapacity == Init /\ [][NextCapacity]_vars

\* The caller cancels the context of the pass in flight (process shutdown
\* or a per-call timeout).
ContextCancelled(w) ==
    /\ pc[w] # "idle" /\ ~CtxDone(w)
    /\ cur' = [cur EXCEPT ![w].calls = Append(@, Call(CancelOp, "", "nil"))]
    /\ UNCHANGED <<provider, object, pc, loc, hist, natVars>>

\* The process running the pass in flight crashes between two cloud calls:
\* the pass is abandoned and nothing of it is kept.
Interrupted(w) ==
    /\ pc[w] # "idle"
    /\ UNCHANGED <<provider, object, natVars>>
    /\ Return(w, Recovery, cur[w].kind, cur[w].start, "Interrupted", cur[w].calls)

\* One pass at a time as in SpecSeq, any number of passes, each of which may
\* be cancelled or crash at any point between its cloud calls; the last two
\* passes are kept.
NextInterrupt ==
    \/ \E w \in SeqWorkers : Reconcile_getAutoScalingGroup(w, Recovery)
    \/ \E w \in SeqWorkers : createAutoScalingGroup_getPrivateSubnetIDs(w, Recovery)
    \/ \E w \in SeqWorkers : createAutoScalingGroup_Create(w, Recovery)
    \/ \E w \in SeqWorkers : Reconcile_DescribeLoadBalancerTargetGroups(w, Recovery)
    \/ \E w \in SeqWorkers : Reconcile_getTargetGroup(w, Recovery)
    \/ \E w \in SeqWorkers : Reconcile_Attach(w, Recovery)
    \/ \E w \in SeqWorkers : Reconcile_Detach(w, Recovery)
    \/ \E w \in SeqWorkers : Finalize_getAutoScalingGroup(w, Recovery)
    \/ \E w \in SeqWorkers : Finalize_Delete(w, Recovery)
    \/ \E w \in SeqWorkers : ContextCancelled(w)
    \/ \E w \in SeqWorkers : Interrupted(w)
    \/ (Quiet /\ SubnetsChange)
    \/ (Quiet /\ TargetGroupChange)
    \/ (Quiet /\ MarkDeleted)
    \/ (Quiet /\ DeletionCompletes)

SpecInterrupt == Init /\ [][NextInterrupt]_vars

\* One step of a pass of worker w, with a provider whose calls succeed.
PassStep(w) ==
    \/ Reconcile_getAutoScalingGroup(w, Resync)
    \/ createAutoScalingGroup_getPrivateSubnetIDs(w, Resync)
    \/ createAutoScalingGroup_Create(w, Resync)
    \/ Reconcile_DescribeLoadBalancerTargetGroups(w, Resync)
    \/ Reconcile_getTargetGroup(w, Resync)
    \/ Reconcile_Attach(w, Resync)
    \/ Reconcile_Detach(w, Resync)
    \/ Finalize_getAutoScalingGroup(w, Resync)
    \/ Finalize_Delete(w, Resync)

\* Passes without end, one at a time, the last one kept; the environment
\* changes at any time, also in the middle of a pass.
NextLive ==
    \/ \E w \in SeqWorkers : PassStep(w)
    \/ SubnetsChange
    \/ TargetGroupChange
    \/ MarkDeleted
    \/ DeletionCompletes

\* The dispatcher requeues and resyncs the object for ever: a pass that can
\* take its next step eventually takes it.
SpecLive == Init /\ [][NextLive]_vars /\ \A w \in SeqWorkers : WF_vars(PassStep(w))

\* The passes of SpecSeq against a provider that starts out holding any
\* number of groups with the object's name, more than one included.
InitDup ==
    /\ asgCount \in 0..MaxGroups
    /\ asgCapacity = (IF asgCount = 0 THEN 0 ELSE 1)
    /\ instanceCount = 1
    /\ asgStatus = ""
    /\ attached = <<>>
    /\ tgArn = "none"
    /\ subnets = 0
    /\ deletionMarked = FALSE
    /\ pc = [w \in Workers |-> "idle"]
    /\ loc = [w \in Workers |-> IdleLoc]
    /\ cur = [w \in Workers |-> IdleCur]
    /\ hist = <<>>
    /\ natStore = [n \in Names |-> <<>>]
    /\ natPc = [w \in Workers |-> "idle"]
    /\ natCur = [w \in Workers |-> [cp |-> "", lookup |-> "", before |-> <<>>]]
    /\ natLog = <<>>

SpecDup == InitDup /\ [][NextSeq]_vars

\* ----------------------------------------------------------- NatGateway
\* `Spec: v1alpha1.NatGatewaySpec{}`: the spec of a created child object.
DefaultSpec == "default"
EditedSpec == "edited"

\* NamespacedName(ns, objName): the key exists() looks up.
NamespacedName(objName) == <<objName, NoSuffix>>

\* ObjectMeta(controlPlane, suffix): the metadata of a child object: named
\* after the control plane and the suffix, owned by the control plane.
ObjectMeta(cp, suffix) == [name |-> <<cp, suffix>>, owner |-> cp]

\* NatGateway.create: the object call w sends for control plane cp,
\* `ObjectMeta(controlPlane, "")` with `NatGatewaySpec{}`: every call for a
\* control plane names the same object, the one exists() looks up.
NatGatewayObjectPerCall(cp, w) == [meta |-> ObjectMeta(cp, w), spec |-> DefaultSpec]
NatGatewayObject(cp, w) == [meta |-> ObjectMeta(cp, NoSuffix), spec |-> DefaultSpec]

\* KubeClient.Create as the store answers it: namespace/name is unique, a
\* second object with it is rejected with AlreadyExists.
StoreCreate(objs, obj) ==
    IF Len(objs) >= 1 THEN [objs |-> objs, err |-> "AlreadyExists"]
                      ELSE [objs |-> <<obj>>, err |-> "nil"]

\* The child objects the store holds for control plane cp: by owner, under
\* whatever name.
Children(store, cp) ==
    {<<n, i>> \in Names \X (1..Cardinality(Workers)) :
        i <= Len(store[n]) /\ store[n][i].owner = cp}

\* KubeClient.Get as the store answers it.
StoreGet(objs) == IF Len(objs) = 0 THEN "NotFound" ELSE "nil"

\* NatGateway.Create: what follows the lookup: nothing when the object was
\* found, a create when `errors.IsNotFound(err)`, else the error.
CreateStepAnyError(err) == IF err = "nil" THEN "noop" ELSE "create"
CreateStep(err) ==
    IF err = "nil" THEN "noop"
    ELSE IF err = "NotFound" THEN "create"
    ELSE "error"

\* How a specification runs NatGateway.Create: the callers, and the faults
\* the store may inject into a lookup and into a create.
NatConcurrent == [workers |-> Workers, getFaults |-> BOOLEAN, createFaults |-> BOOLEAN]
NatSequential == [workers |-> SeqWorkers, getFaults |-> BOOLEAN, createFaults |-> {FALSE}]

NatIdle == [cp |-> "", lookup |-> "", before |-> <<>>]
NatInFlight == {w \in Workers : natPc[w] # "idle"}
NatQuiet == NatInFlight = {}

\* The call of worker w returns err after `writes` create requests.
NatReturn(w, cp, lookup, before, writes, created, err) ==
    /\ natPc' = [natPc EXCEPT ![w] = "idle"]
    /\ natCur' = [natCur EXCEPT ![w] = NatIdle]
    /\ natLog' = Append(natLog, [cp |-> cp, worker |-> w, lookup |-> lookup,
                                 writes |-> writes, created |-> created, err |-> err,
                                 before |-> before, after |-> natStore'])

\* NatGateway.Create, first call: exists (KubeClient.Get).
NatGateway_exists(w, m) ==
    /\ natPc[w] = "idle"
    /\ Len(natLog) + Cardinality(NatInFlight) < MaxNatCalls
    /\ \E cp \in ControlPlanes, fail \in m.getFaults :
        LET err == IF fail THEN "Transient" ELSE StoreGet(natStore[NamespacedName(cp)])
            step == CreateStep(err)
        IN /\ natStore' = natStore
           /\ UNCHANGED asgVars
           /\ IF step = "noop" THEN NatReturn(w, cp, err, natStore, 0, FALSE, "nil")
              ELSE IF step = "error"
                   THEN NatReturn(w, cp, err, natStore, 0, FALSE, "getting internet gateway object")
              ELSE /\ natPc' = [natPc EXCEPT ![w] = "create"]
                   /\ natCur' = [natCur EXCEPT ![w] =
                                    [cp |-> cp, lookup |-> err, before |-> natStore]]
                   /\ natLog' = natLog

\* NatGateway.create (KubeClient.Create of the child object).
NatGateway_create(w, m) ==
    /\ natPc[w] = "create"
    /\ \E fail \in m.createFaults :
        LET cp == natCur[w].cp
            obj == NatGatewayObject(cp, w)
            name == obj.meta.name
            r == IF fail THEN [objs |-> natStore[name], err |-> "Transient"]
                         ELSE StoreCreate(natStore[name],
                                          [owner |-> obj.meta.owner, spec |-> obj.spec])
        IN /\ natStore' = [natStore EXCEPT ![name] = r.objs]
           /\ UNCHANGED asgVars
           /\ NatReturn(w, cp, natCur[w].lookup, natCur[w].before, 1, r.err = "nil",
                        IF r.err = "nil" THEN "nil"
                        ELSE "creating internet gateway kube object")

\* The child object of a control plane is deleted from the store.
NatGatewayDeleted ==
    /\ \E n \in Names :
        /\ natStore[n] # <<>>
        /\ natStore' = [natStore EXCEPT ![n] = <<>>]
    /\ UNCHANGED <<asgVars, natPc, natCur, natLog>>

\* The spec of a child object is edited in the store.
NatGatewayEdited ==
    /\ \E n \in Names :
        /\ Len(natStore[n]) = 1
        /\ natStore[n][1].spec = DefaultSpec
        /\ natStore' = [natStore EXCEPT ![n] = <<[natStore[n][1] EXCEPT !.spec = EditedSpec]>>]
    /\ UNCHANGED <<asgVars, natPc, natCur, natLog>>

\* Concurrent NatGateway.Create calls against a store that may fail any call.
NextNat ==
    \/ \E w \in Workers : NatGateway_exists(w, NatConcurrent)
    \/ \E w \in Workers : NatGateway_create(w, NatConcurrent)

SpecNat == Init /\ [][NextNat]_vars

\* NatGateway.Create calls one after the other; lookups may fail, creates
\* succeed, and child objects are deleted or edited between calls.
NextNatSeq ==
    \/ \E w \in SeqWorkers : NatGateway_exists(w, NatSequential)
    \/ \E w \in SeqWorkers : NatGateway_create(w, NatSequential)
    \/ (NatQuiet /\ NatGatewayDeleted)
    \/ (NatQuiet /\ NatGatewayEdited)

SpecNatSeq == Init /\ [][NextNatSeq]_vars

\* ------------------------------------------------------------ type check
TypeOK ==
    /\ asgCount \in 0..MaxGroups
    /\ asgCapacity \in 0..MaxInstances
    /\ instanceCount \in 1..MaxInstances
    /\ asgStatus \in {"", DeleteInProgress}
    /\ Len(attached) <= Cardinality(ARNs)
    /\ tgArn \in ARNs \cup {"none"}
    /\ subnets \in 0..MaxSubnets
    /\ deletionMarked \in BOOLEAN

\* ------------------------------------------------------ passes, observed
CreateOp == "CreateAutoScalingGroup"
AttachOp == "AttachLoadBalancerTargetGroups"
DetachOp == "DetachLoadBalancerTargetGroups"
DeleteOp == "DeleteAutoScalingGroup"
MutatingOps == {CreateOp, AttachOp, DetachOp}

\* The positions of the calls of operation op in the pass p.
CallsOf(p, op) == {i \in 1..Len(p.calls) : p.calls[i].op = op}
Issued(p, op) == CallsOf(p, op) # {}
Passes == 1..Len(hist)

\* ---------------------------------------------------------------- claims
\* C2: a Reconcile whose create request is answered "already exists" (it
\* lost a race against another Reconcile) treats the answer as success: the
\* pass does not end with an error.
C2_AlreadyExistsIsSuccess ==
    \A i \in Passes :
        (/\ hist[i].kind = "Reconcile"
         /\ \E j \in CallsOf(hist[i], CreateOp) : hist[i].calls[j].err = "AlreadyExists")
        => hist[i].result \notin {"Error", "Panic"}

\* C3: whenever Finalize returns Terminated, no autoscaling group with the
\* object's name exists any more.
C3_TerminatedMeansAbsent ==
    \A i \in Passes :
        (hist[i].kind = "Finalize" /\ hist[i].result = "Terminated")
        => hist[i].end.asgCount = 0

\* C4: whenever Reconcile returns Created, the autoscaling group exists and
\* the target group attached to it is the expected one.
C4_CreatedMeansAttached ==
    \A i \in Passes :
        (hist[i].kind = "Reconcile" /\ hist[i].result = "Created")
        => /\ hist[i].end.asgCount = 1
           /\ hist[i].end.attached = <<hist[i].end.tgArn>>

\* Pass i+1 starts in the state pass i ended in: no external change between.
NoChangeAfter(i) == hist[i].end = hist[i + 1].start

\* C5: two Reconcile calls in succession with no external state change
\* between them: when the first returns Created, so does the second, and
\* the second issues no create call and no attach call the first issued.
C5_ReconcileIdempotent ==
    \A i \in Passes :
        (/\ i + 1 \in Passes
         /\ hist[i].kind = "Reconcile" /\ hist[i + 1].kind = "Reconcile"
         /\ hist[i].result = "Created"
         /\ NoChangeAfter(i))
        => /\ hist[i + 1].result = "Created"
           /\ ~Issued(hist[i + 1], CreateOp)
           /\ \A j \in CallsOf(hist[i + 1], AttachOp) :
                \A k \in CallsOf(hist[i], AttachOp) :
                    hist[i + 1].calls[j].arg # hist[i].calls[k].arg

\* C5 witness: a pass that created the group and attached the target group
\* is followed, with no change between, by a pass that only reads.
C5_Witness ==
    \E i \in Passes :
        /\ i + 1 \in Passes
        /\ hist[i].kind = "Reconcile" /\ hist[i + 1].kind = "Reconcile"
        /\ hist[i].result = "Created"
        /\ Issued(hist[i], CreateOp) /\ Issued(hist[i], AttachOp)
        /\ NoChangeAfter(i)
        /\ hist[i + 1].result = "Created"
        /\ \A j \in 1..Len(hist[i + 1].calls) : hist[i + 1].calls[j].op \notin MutatingOps

\* A Reconcile pass that starts with the group absent and no private subnet.
WaitsForSubnets(i) ==
    /\ hist[i].kind = "Reconcile"
    /\ hist[i].start.asgCount = 0
    /\ hist[i].start.subnets = 0

\* C6: with the group absent and zero private subnets, every Reconcile
\* returns Waiting and issues no create call; once subnets appear, the next
\* Reconcile issues exactly one create call.
C6_DependencyOrdering ==
    \A i \in Passes :
        WaitsForSubnets(i)
        => /\ hist[i].result = "Waiting"
           /\ ~Issued(hist[i], CreateOp)
           /\ (/\ i + 1 \in Passes
               /\ hist[i + 1].kind = "Reconcile"
               /\ hist[i + 1].start.subnets > 0)
              => Cardinality(CallsOf(hist[i + 1], CreateOp)) = 1

\* C6 witness: two passes waited for subnets, the third created the group.
C6_Witness ==
    /\ Len(hist) >= 3
    /\ WaitsForSubnets(1) /\ hist[1].result = "Waiting"
    /\ WaitsForSubnets(2) /\ hist[2].result = "Waiting"
    /\ hist[3].start.subnets > 0
    /\ Cardinality(CallsOf(hist[3], CreateOp)) = 1
    /\ asgCount = 1

\* A Reconcile pass that starts with a stale attachment: the group has ARN
\* A attached and the expected target group exists with another ARN B.
StaleAttachment(i) ==
    /\ hist[i].kind = "Reconcile"
    /\ hist[i].start.asgCount = 1
    /\ hist[i].start.attached # <<>>
    /\ hist[i].start.tgArn \in ARNs
    /\ hist[i].start.attached[1] # hist[i].start.tgArn

\* C7: drift correction is two-phase: a pass that finds A attached and B
\* expected issues the detach of A and no attach; the following pass issues
\* the attach of B.
C7_TwoPhaseDrift ==
    \A i \in Passes :
        StaleAttachment(i)
        => /\ \E j \in CallsOf(hist[i], DetachOp) :
                /\ CallsOf(hist[i], DetachOp) = {j}
                /\ hist[i].calls[j].arg = hist[i].start.attached[1]
           /\ ~Issued(hist[i], AttachOp)
           /\ (i + 1 \in Passes /\ hist[i + 1].kind = "Reconcile" /\ NoChangeAfter(i))
              => /\ \E j \in CallsOf(hist[i + 1], AttachOp) :
                      /\ CallsOf(hist[i + 1], AttachOp) = {j}
                      /\ hist[i + 1].calls[j].arg = hist[i].start.tgArn
                 /\ ~Issued(hist[i + 1], DetachOp)

\* C7 witness: a pass detached the stale ARN, the next attached the expected
\* one, which is now the only attachment.
C7_Witness ==
    \E i \in Passes :
        /\ StaleAttachment(i)
        /\ i + 1 \in Passes /\ hist[i + 1].kind = "Reconcile" /\ NoChangeAfter(i)
        /\ Issued(hist[i], DetachOp) /\ Issued(hist[i + 1], AttachOp)
        /\ hist[i + 1].end.attached = <<hist[i].start.tgArn>>

\* C8: Finalize with no group issues no delete call and succeeds; two
\* successive Finalize calls on an existing group issue at most one delete
\* call in total.
C8_FinalizeIdempotent ==
    \A i \in Passes :
        hist[i].kind = "Finalize"
        => /\ hist[i].start.asgCount = 0
              => (hist[i].result = "Terminated" /\ ~Issued(hist[i], DeleteOp))
           /\ (i + 1 \in Passes /\ hist[i + 1].kind = "Finalize" /\ hist[i].start.asgCount >= 1)
              => Cardinality(CallsOf(hist[i], DeleteOp))
                   + Cardinality(CallsOf(hist[i + 1], DeleteOp)) <= 1

\* C8 witness: the first Finalize issued the delete, the second found the
\* group still there, in deletion, and issued none.
C8_Witness ==
    \E i \in Passes :
        /\ i + 1 \in Passes
        /\ hist[i].kind = "Finalize" /\ hist[i + 1].kind = "Finalize"
        /\ Issued(hist[i], DeleteOp)
        /\ hist[i + 1].start.asgCount = 1
        /\ hist[i + 1].start.asgStatus = DeleteInProgress
        /\ ~Issued(hist[i + 1], DeleteOp)
        /\ hist[i + 1].result = "Terminated"

\* The first pass of the lifecycle: subnets present, group and target group
\* absent.
LifecycleFirst(i) ==
    /\ hist[i].kind = "Reconcile"
    /\ hist[i].start.asgCount = 0
    /\ hist[i].start.subnets > 0
    /\ hist[i].start.tgArn = "none"

\* The second pass: the next Reconcile, once the target group exists.
LifecycleSecond(i) ==
    /\ i > 1 /\ LifecycleFirst(i - 1)
    /\ hist[i].kind = "Reconcile"
    /\ hist[i].start.tgArn \in ARNs

\* The third pass: the next pass, a Finalize.
LifecycleThird(i) ==
    /\ i > 2 /\ LifecycleSecond(i - 1)
    /\ hist[i].kind = "Finalize"

\* C9: the lifecycle: the first Reconcile creates the group, attaches
\* nothing and returns Waiting; once the target group exists the second
\* Reconcile creates nothing, attaches it and returns Created; after the
\* deletion marker is set Finalize issues one delete and returns Terminated.
C9_Lifecycle ==
    \A i \in Passes :
        /\ LifecycleFirst(i)
           => /\ Cardinality(CallsOf(hist[i], CreateOp)) = 1
              /\ ~Issued(hist[i], AttachOp)
              /\ hist[i].result = "Waiting"
        /\ LifecycleSecond(i)
           => /\ ~Issued(hist[i], CreateOp)
              /\ \E j \in CallsOf(hist[i], AttachOp) :
                    /\ CallsOf(hist[i], AttachOp) = {j}
                    /\ hist[i].calls[j].arg = hist[i].start.tgArn
              /\ hist[i].result = "Created"
        /\ LifecycleThird(i)
           => /\ Cardinality(CallsOf(hist[i], DeleteOp)) = 1
              /\ hist[i].result = "Terminated"

\* C9 witness: the three passes of the lifecycle have run.
C9_Witness ==
    /\ Len(hist) = 3
    /\ LifecycleThird(3)
    /\ hist[2].result = "Created"
    /\ hist[3].result = "Terminated"
    /\ asgStatus = DeleteInProgress

\* C10: every failure of a cloud call of Reconcile that is not a
\* dependency-not-ready condition ends the pass with an error (no crash),
\* and no create, attach or detach call follows the failed call.
C10_FailurePropagated ==
    \A i \in Passes :
        hist[i].kind = "Reconcile"
        => \A j \in 1..Len(hist[i].calls) :
              hist[i].calls[j].err \notin {"nil", "TargetGroupNotFound"}
              => /\ hist[i].result = "Error"
                 /\ \A k \in (j + 1)..Len(hist[i].calls) :
                        hist[i].calls[k].op \notin MutatingOps

\* C11: a missing target group and a stale attachment are distinct: when
\* the expected target group does not exist, Reconcile returns Waiting and
\* issues neither attach nor detach, even with a stale attachment reported;
\* when it exists and the attached ARN differs, Reconcile does not return
\* Waiting and issues a detach.
C11_MissingVersusStale ==
    \A i \in Passes :
        hist[i].kind = "Reconcile"
        => /\ hist[i].start.tgArn = "none"
              => /\ hist[i].result = "Waiting"
                 /\ ~Issued(hist[i], AttachOp)
                 /\ ~Issued(hist[i], DetachOp)
           /\ StaleAttachment(i)
              => /\ hist[i].result # "Waiting"
                 /\ Issued(hist[i], DetachOp)

\* C11 witness: the target group was deleted while still reported as
\* attached, and the pass waited without detaching it.
C11_Witness ==
    \E i \in Passes :
        /\ hist[i].kind = "Reconcile"
        /\ hist[i].start.tgArn = "none"
        /\ hist[i].start.asgCount = 1
        /\ hist[i].start.attached # <<>>
        /\ hist[i].result = "Waiting"
        /\ hist[i].end.attached = hist[i].start.attached

\* C12: Finalize never reports Terminated on an error path: when its
\* describe or its delete call fails the pass returns an error, and every
\* Finalize pass starts over from the describe call.
C12_FinalizeErrorNotTerminated ==
    \A i \in Passes :
        hist[i].kind = "Finalize"
        => /\ hist[i].calls[1].op = "DescribeAutoScalingGroups"
           /\ (\E j \in 1..Len(hist[i].calls) : hist[i].calls[j].err # "nil")
              => hist[i].result = "Error"

\* C12 witness: the delete call of a Finalize failed and the pass returned
\* an error, the group being left as it was.
C12_Witness ==
    \E i \in Passes :
        /\ hist[i].kind = "Finalize"
        /\ \E j \in CallsOf(hist[i], DeleteOp) : hist[i].calls[j].err = "Transient"
        /\ hist[i].result = "Error"
        /\ hist[i].end.asgCount = 1
        /\ hist[i].end.asgStatus = ""

\* C13: when describe-by-name returns more than one group for the name,
\* Reconcile and Finalize end the pass with an error of a fatal kind (not
\* Waiting, not the retryable error a transient failure gives) and issue no
\* create, attach, detach or delete call.
C13_DuplicatesFatal ==
    \A i \in Passes :
        hist[i].start.asgCount > 1
        => /\ hist[i].result = "Fatal"
           /\ \A j \in 1..Len(hist[i].calls) :
                hist[i].calls[j].op \notin MutatingOps \cup {DeleteOp}

\* C14: every cloud call of Reconcile and Finalize is subject to the
\* caller's context: once it is cancelled no further cloud call of the pass
\* takes effect, and the pass returns at its next call.
C14_ContextHonoured ==
    \A i \in Passes :
        \A j \in CallsOf(hist[i], CancelOp) :
            /\ \A k \in (j + 1)..Len(hist[i].calls) : hist[i].calls[k].err # "nil"
            /\ Len(hist[i].calls) <= j + 1

\* A pass that did not run to its end: it crashed, or its context was
\* cancelled.
WasInterrupted(i) == hist[i].result = "Interrupted" \/ Issued(hist[i], CancelOp)

\* C17: after an interrupted Reconcile, the next complete Reconcile starts
\* from the describe call, finds the group that exists, issues no second
\* create and completes or corrects the attachment: it waits for a missing
\* target group, attaches the expected one when none is attached, detaches
\* a stale one, and changes nothing when the attachment is right.
C17_InterruptedPassRecovered ==
    \A i \in Passes :
        (/\ i + 1 \in Passes
         /\ hist[i].kind = "Reconcile" /\ WasInterrupted(i)
         /\ hist[i + 1].kind = "Reconcile" /\ ~WasInterrupted(i + 1)
         /\ hist[i + 1].start.asgCount = 1)
        => LET p == hist[i + 1]
               s == hist[i + 1].start
               e == hist[i + 1].end
           IN /\ p.calls[1].op = "DescribeAutoScalingGroups"
              /\ ~Issued(p, CreateOp)
              /\ e.asgCount = 1
              /\ s.tgArn = "none" => (p.result = "Waiting" /\ e.attached = s.attached)
              /\ (s.tgArn \in ARNs /\ s.attached = <<>>)
                 => (p.result = "Created" /\ e.attached = <<s.tgArn>>)
              /\ (s.tgArn \in ARNs /\ s.attached # <<>> /\ s.attached # <<s.tgArn>>)
                 => (Issued(p, DetachOp) /\ e.attached = <<>>)
              /\ (s.tgArn \in ARNs /\ s.attached = <<s.tgArn>>)
                 => (p.result = "Created" /\ e.attached = s.attached
                     /\ \A j \in 1..Len(p.calls) : p.calls[j].op \notin MutatingOps)

\* C17 witness: a pass crashed right after its create call succeeded; the
\* next pass found the group, created nothing and attached the target group.
C17_Witness ==
    \E i \in Passes :
        /\ i + 1 \in Passes
        /\ hist[i].kind = "Reconcile" /\ hist[i].result = "Interrupted"
        /\ hist[i].calls[Len(hist[i].calls)].op = CreateOp
        /\ hist[i].calls[Len(hist[i].calls)].err = "nil"
        /\ hist[i + 1].kind = "Reconcile" /\ hist[i + 1].result = "Created"
        /\ ~Issued(hist[i + 1], CreateOp)
        /\ Issued(hist[i + 1], AttachOp)
        /\ hist[i + 1].end.attached = <<hist[i + 1].end.tgArn>>

\* C18: whenever Reconcile returns Created, the desired capacity of the
\* external group equals the object's desired instance count.
C18_CapacityMatches ==
    \A i \in Passes :
        (hist[i].kind = "Reconcile" /\ hist[i].result = "Created")
        => hist[i].end.asgCapacity = hist[i].end.instanceCount

\* The group exists with exactly the target group a attached, and the last
\* pass was a Reconcile that returned Created without create, attach or
\* detach.
Converged(a) ==
    /\ asgCount = 1
    /\ attached = <<a>>
    /\ hist # <<>>
    /\ hist[1].kind = "Reconcile"
    /\ hist[1].result = "Created"
    /\ \A j \in 1..Len(hist[1].calls) : hist[1].calls[j].op \notin MutatingOps

\* C16: convergence: if from some point on the cluster has private subnets,
\* the expected target group exists unchanged and the object is not marked
\* for deletion, then repeated Reconcile passes reach the group with exactly
\* that target group attached, and from then on every pass returns Created
\* and issues no create, attach or detach call.
C16_Convergence ==
    \A a \in ARNs :
        <>[](~deletionMarked /\ subnets > 0 /\ tgArn = a) => <>[]Converged(a)

\* C16 witness: converged after a pass had to detach a stale target group.
C16_Witness ==
    /\ subnets > 0 /\ tgArn \in ARNs /\ ~deletionMarked
    /\ Converged(tgArn)
    /\ pc = [w \in Workers |-> "idle"]

NatCalls == 1..Len(natLog)

\* C15: NatGateway.Create: on not-found exactly one child object with the
\* default spec is created; on found no write is issued, the call succeeds
\* and the store is unchanged; on any other lookup error the error is
\* returned and no create is issued.  Hence a call repeated after a
\* successful one finds one child object and writes nothing.
C15_NatGatewayCreate ==
    \A i \in NatCalls :
        LET c == natLog[i] IN
        /\ c.lookup = "NotFound"
           => /\ c.writes = 1 /\ c.err = "nil"
              /\ c.after = [c.before EXCEPT ![NamespacedName(c.cp)] =
                                <<[owner |-> c.cp, spec |-> DefaultSpec]>>]
        /\ c.lookup = "nil"
           => (c.writes = 0 /\ c.err = "nil" /\ c.after = c.before)
        /\ c.lookup \notin {"nil", "NotFound"}
           => (c.writes = 0 /\ c.err # "nil" /\ c.after = c.before)
        /\ (/\ i + 1 \in NatCalls
            /\ natLog[i + 1].cp = c.cp
            /\ c.err = "nil"
            /\ natLog[i + 1].before = c.after
            /\ natLog[i + 1].err = "nil")
           => /\ natLog[i + 1].writes = 0
              /\ Cardinality(Children(natLog[i + 1].after, c.cp)) = 1

\* C15 witness: the first call created the child object, the same call
\* repeated twice found it and wrote nothing.
C15_Witness ==
    /\ Len(natLog) = 3
    /\ natLog[1].lookup = "NotFound" /\ natLog[1].writes = 1
    /\ \A i \in 2..3 :
        /\ natLog[i].cp = natLog[1].cp
        /\ natLog[i].lookup = "nil" /\ natLog[i].writes = 0
        /\ natLog[i].before = natLog[1].after
        /\ natLog[i].after = natLog[1].after

\* C19: under any interleaving of concurrent NatGateway.Create calls for a
\* control plane, against a store that rejects a second object with the
\* same namespace/name, the store holds at most one child object owned by
\* the control plane, under whatever name, and at most one call performed a
\* successful create.
C19_OneChildUnderRaces ==
    \A cp \in ControlPlanes :
        /\ Cardinality(Children(natStore, cp)) <= 1
        /\ Cardinality({i \in NatCalls : natLog[i].cp = cp /\ natLog[i].created}) <= 1

\* C19 witness: two calls for one control plane both saw not-found and both
\* issued the create; one succeeded, the other was rejected.
C19_Witness ==
    \E i, j \in NatCalls :
        /\ i # j
        /\ natLog[i].cp = natLog[j].cp
        /\ natLog[i].lookup = "NotFound" /\ natLog[j].lookup = "NotFound"
        /\ natLog[i].created
        /\ natLog[j].writes = 1 /\ ~natLog[j].created /\ natLog[j].err # "nil"
        /\ Cardinality(Children(natStore, natLog[i].cp)) = 1
====
